---- MODULE Spec2Model ----
(***************************************************************************)
(* State-machine model of src/ftse_data_server_new.py: the snapshot store  *)
(* (ftse_data, last_update_time, ftse_lock), the refresh operation         *)
(* get_ftse_data_from_histock with update_ftse_data / handle_data_error,   *)
(* the read path get_ftse_data with the request handler that calls it, and *)
(* the background updater run_background_update.                           *)
(*                                                                         *)
(* Units.  Decimal values (price, change, changePercent) are fixed-point   *)
(* integers in thousandths: 1637.5 is 1637500.  tx_price and tx_change are *)
(* whole units.  Time is in seconds; the clock "now" counts the seconds    *)
(* since Monday 00:00:00 Taipei time of the week in which the process      *)
(* starts, so that weekday and time of day are functions of the clock.     *)
(***************************************************************************)
EXTENDS Integers, Sequences, FiniteSets, TLC

(***************************************************************************)
(* Bounds of the model.                                                    *)
(***************************************************************************)
\* number of clock advances in one behaviour
MaxTicks == 2
\* number of refresh threads that readers can have in flight at once
MaxSpawned == 2
\* number of clock advances followed from a start with requests admitted at once
MaxColdTicks == 2
\* number of clock advances after which the responses change for good
TurnTick == 1
\* largest magnitude, in thousandths, of the values given to round_to_quarter
MaxQuarterInput == 2000

(***************************************************************************)
(* Program constants.                                                      *)
(***************************************************************************)
\* thousandths per unit of a decimal value
Scale == 1000
\* handle_data_error: "time.time() - last_update_time < 300"
ValidityWindow == 300
\* get_ftse_data: "update_interval = 20 if is_market_hours() else 300"
ReadIntervalOpen == 20
ReadIntervalClosed == 300
\* run_background_update: "update_interval = 10 if is_market_hours() else 60"
SleepOpen == 10
SleepClosed == 60
\* run_background_update: "time.sleep(5)"
SleepAfterError == 5
\* calculate_tx_change: "base_tx = 27556"
base_tx == 27556
\* handle_data_error: default_price = 1637.5, 'change': -68.3, 'changePercent': -4.0
default_price == 1637500
default_change == -68300
default_change_percent == -4000
\* is_market_hours: weekday() >= 5 is the weekend; the window is 8:45 - 13:45
FirstWeekendDay == 5
SecondsPerDay == 86400
MarketStartSec == 31500
MarketEndSec == 49500

\* the 'source' tags: update_ftse_data is called with "HiStock網站" (line 154),
\* handle_data_error writes '預設數據' (line 250)
SourceLive == "HiStock"
SourceDefault == "default"

(***************************************************************************)
(* is_market_hours (lines 39-51) as a function of the Taipei clock.        *)
(***************************************************************************)
\* the end of the window left out: "now < market_end"
IsMarketHoursBeforeEnd(t) ==
    LET weekday == (t \div SecondsPerDay) % 7
        tod     == t % SecondsPerDay
    IN  IF weekday >= FirstWeekendDay
        THEN FALSE
        ELSE MarketStartSec <= tod /\ tod < MarketEndSec

IsMarketHoursAt(t) ==
    LET weekday == (t \div SecondsPerDay) % 7
        tod     == t % SecondsPerDay
    IN  IF weekday >= FirstWeekendDay
        THEN FALSE
        ELSE MarketStartSec <= tod /\ tod <= MarketEndSec

(***************************************************************************)
(* round_to_quarter (lines 53-79).  int(value) truncates toward zero, so   *)
(* the decimal part of a negative value is negative.                       *)
(***************************************************************************)
IntPart(v) == IF v >= 0 THEN v \div Scale ELSE -((-v) \div Scale)

round_to_quarter(value) ==
    LET integer_part == IntPart(value)
        decimal_part == value - integer_part * Scale
    IN  IF decimal_part < 125 THEN integer_part * Scale
        ELSE IF decimal_part < 375 THEN integer_part * Scale + 250
        ELSE IF decimal_part < 625 THEN integer_part * Scale + 500
        ELSE IF decimal_part < 875 THEN integer_part * Scale + 750
        ELSE (integer_part + 1) * Scale

(***************************************************************************)
(* calculate_tx_price (lines 170-183): round(price * 12.28065515714918, 0).*)
(* The coefficient is 1228 0655 1571 4918 * 10^-14; the product with the   *)
(* price in thousandths is formed limb by limb in base 10^4 so that no     *)
(* intermediate value exceeds 32 bits (|price| < 10^8 thousandths).  The   *)
(* result is rounded to the nearest whole unit, an exact half to even as   *)
(* Python's round does.  The decimal product and the binary floating-point *)
(* product of the program round to the same whole unit for every price of  *)
(* magnitude below 2823.750 (they first differ there, where the float      *)
(* product is an exact half); the prices of this model stay below that.    *)
(***************************************************************************)
Limb == 10000
Coef3 == 1228
Coef2 == 655
Coef1 == 1571
Coef0 == 4918

TxMagnitude(m) ==
    LET m1 == m \div Limb
        m0 == m % Limb
        t0 == m0 * Coef0
        t1 == m0 * Coef1 + m1 * Coef0 + (t0 \div Limb)
        t2 == m0 * Coef2 + m1 * Coef1 + (t1 \div Limb)
        t3 == m0 * Coef3 + m1 * Coef2 + (t2 \div Limb)
        t4 == m1 * Coef3 + (t3 \div Limb)
        low == (t0 % Limb) + (t1 % Limb) + (t2 % Limb) + (t3 % Limb)
        a == t4 \div 10
        r == t4 % 10
    IN  IF r >= 6 \/ (r = 5 /\ low > 0) THEN a + 1
        ELSE IF r = 5 /\ a % 2 = 1 THEN a + 1
        ELSE a

calculate_tx_price(ftse_price) ==
    IF ftse_price < 0 THEN -TxMagnitude(-ftse_price) ELSE TxMagnitude(ftse_price)

(***************************************************************************)
(* calculate_tx_change (lines 185-197): the whole-unit difference between  *)
(* the derived price and the baseline; round(.., 0) of a whole number is   *)
(* that number.                                                            *)
(***************************************************************************)
\* the baseline subtracted from the index price instead of the derived price
calculate_tx_change_of_index(ftse_price) == IntPart(ftse_price) - base_tx

calculate_tx_change(ftse_price) == calculate_tx_price(ftse_price) - base_tx

(***************************************************************************)
(* Text.  A text is a sequence of characters; a character is a one-letter  *)
(* string, the glyphs U+25BC and U+25B2 being written "DOWN" and "UP".     *)
(***************************************************************************)
DownGlyph == "DOWN"
UpGlyph == "UP"
DigitChars == <<"0", "1", "2", "3", "4", "5", "6", "7", "8", "9">>
IsDigit(c) == \E i \in 1..10 : DigitChars[i] = c
DigitValue(c) == (CHOOSE i \in 1..10 : DigitChars[i] = c) - 1

\* str.replace(c, '')
Remove(s, c) == SelectSeq(s, LAMBDA x : x # c)
\* c in s
Contains(s, c) == \E i \in 1..Len(s) : s[i] = c
\* s.startswith(c)
StartsWith(s, c) == Len(s) > 0 /\ s[1] = c

\* str.strip(): leading and trailing white space removed
RECURSIVE LStrip(_)
LStrip(s) == IF Len(s) > 0 /\ s[1] = " " THEN LStrip(Tail(s)) ELSE s
RECURSIVE RStrip(_)
RStrip(s) ==
    IF Len(s) > 0 /\ s[Len(s)] = " " THEN RStrip(SubSeq(s, 1, Len(s) - 1)) ELSE s
Strip(s) == LStrip(RStrip(s))

\* the value of a sequence of digits
RECURSIVE DigitsValue(_)
DigitsValue(s) ==
    IF Len(s) = 0 THEN 0
    ELSE DigitsValue(SubSeq(s, 1, Len(s) - 1)) * 10 + DigitValue(s[Len(s)])

AllDigits(s) == \A i \in 1..Len(s) : IsDigit(s[i])

(***************************************************************************)
(* float(text) over the characters of the model: white space around the    *)
(* number is ignored, one sign is allowed, then digits with at most one    *)
(* point and at least one digit.  Anything else raises ValueError.  The    *)
(* value is in thousandths; the texts of the model carry at most three     *)
(* decimals (further digits would be dropped).                             *)
(***************************************************************************)
NoValue == [ok |-> FALSE, val |-> 0]

ParseUnsigned(s) ==
    LET dots == { i \in 1..Len(s) : s[i] = "." }
    IN  IF dots = {}
        THEN IF Len(s) > 0 /\ AllDigits(s)
             THEN [ok |-> TRUE, val |-> DigitsValue(s) * Scale]
             ELSE NoValue
        ELSE LET d == CHOOSE i \in dots : TRUE
                 ip == SubSeq(s, 1, d - 1)
                 fp == SubSeq(s, d + 1, Len(s))
                 f3 == SubSeq(fp \o <<"0", "0", "0">>, 1, 3)
             IN  IF Cardinality(dots) = 1 /\ AllDigits(ip) /\ AllDigits(fp)
                    /\ Len(ip) + Len(fp) > 0
                 THEN [ok |-> TRUE, val |-> DigitsValue(ip) * Scale + DigitsValue(f3)]
                 ELSE NoValue

ParseFloat(text) ==
    LET s == Strip(text)
    IN  IF StartsWith(s, "-")
        THEN LET u == ParseUnsigned(Tail(s)) IN [ok |-> u.ok, val |-> -u.val]
        ELSE IF StartsWith(s, "+") THEN ParseUnsigned(Tail(s))
        ELSE ParseUnsigned(s)

(***************************************************************************)
(* The fetched page as the extractor sees it.  An element is the span with *)
(* the field's id ("outer"), the first span inside it whose class list     *)
(* holds clr-rd or clr-gr ("inner"), that span's class list and its text.  *)
(***************************************************************************)
Element(outer, inner, class, text) ==
    [outer |-> outer, inner |-> inner, class |-> class, text |-> text]

\* an exception: its class, the classes it is an instance of, and str(e)
Exc(class, isa, text) == [class |-> class, isa |-> isa, text |-> text]
FTSEDataError(text) == Exc("FTSEDataError", {"FTSEDataError", "Exception"}, text)

Raised(e) == [ok |-> FALSE, exc |-> e]

\* element.get('class', [''])[0] == 'clr-gr'
FirstClassIsGreen(el) == Len(el.class) > 0 /\ el.class[1] = "clr-gr"

(***************************************************************************)
(* Lines 107-116: the price.  A missing outer span makes .find fail on     *)
(* None (AttributeError), which like a ValueError of float() becomes the   *)
(* parse error; a missing inner span raises its own error, which the inner *)
(* except clause does not catch.                                           *)
(***************************************************************************)
\* a price that does not parse replaced by the default price, the fetch going on
ExtractPriceOrDefault(el) ==
    IF ~el.outer THEN [ok |-> TRUE, val |-> default_price]
    ELSE IF ~el.inner THEN Raised(FTSEDataError("price element not found"))
    ELSE LET f == ParseFloat(Remove(Strip(el.text), ","))
         IN  IF ~f.ok THEN [ok |-> TRUE, val |-> default_price]
             ELSE [ok |-> TRUE, val |-> round_to_quarter(f.val)]

ExtractPrice(el) ==
    IF ~el.outer THEN Raised(FTSEDataError("cannot parse price"))
    ELSE IF ~el.inner THEN Raised(FTSEDataError("price element not found"))
    ELSE LET f == ParseFloat(Remove(Strip(el.text), ","))
         IN  IF ~f.ok THEN Raised(FTSEDataError("cannot parse price"))
             ELSE [ok |-> TRUE, val |-> round_to_quarter(f.val)]

(***************************************************************************)
(* Lines 118-130: the change.                                              *)
(***************************************************************************)
ExtractChange(el) ==
    IF ~el.outer THEN Raised(FTSEDataError("cannot parse change"))
    ELSE IF ~el.inner THEN Raised(FTSEDataError("change element not found"))
    ELSE LET change_text == Strip(el.text)
             f == ParseFloat(Remove(Remove(Remove(change_text, DownGlyph), UpGlyph), ","))
         IN  IF ~f.ok THEN Raised(FTSEDataError("cannot parse change"))
             ELSE IF ~StartsWith(change_text, "-")
                     /\ (Contains(change_text, DownGlyph) \/ FirstClassIsGreen(el))
                  THEN [ok |-> TRUE, val |-> -f.val]
                  ELSE [ok |-> TRUE, val |-> f.val]

(***************************************************************************)
(* Lines 132-144: the percent change.  Only '%' is removed from the text   *)
(* before float(); the down glyph is looked for in the unstripped text.    *)
(***************************************************************************)
ExtractPercent(el) ==
    IF ~el.outer THEN Raised(FTSEDataError("cannot parse percent"))
    ELSE IF ~el.inner THEN Raised(FTSEDataError("percent element not found"))
    ELSE LET percent_text == Remove(Strip(el.text), "%")
             f == ParseFloat(percent_text)
         IN  IF ~f.ok THEN Raised(FTSEDataError("cannot parse percent"))
             ELSE IF ~StartsWith(percent_text, "-")
                     /\ (Contains(el.text, DownGlyph) \/ FirstClassIsGreen(el))
                  THEN [ok |-> TRUE, val |-> -f.val]
                  ELSE [ok |-> TRUE, val |-> f.val]

(***************************************************************************)
(* Lines 85-152 of get_ftse_data_from_histock: what the try block yields   *)
(* for a response.  "request" is the exception of requests.get or          *)
(* raise_for_status, "parser" the one of building the document, if any.    *)
(* The result is the argument list of update_ftse_data or the exception    *)
(* that leaves the try block.                                              *)
(***************************************************************************)
NoExc == Exc("none", {}, "")

Extract(page) ==
    IF page.request # NoExc THEN Raised(page.request)
    ELSE IF page.parser # NoExc THEN Raised(page.parser)
    ELSE IF ~page.region THEN Raised(FTSEDataError("price info region not found"))
    ELSE LET p == ExtractPrice(page.price)
             c == ExtractChange(page.change)
             q == ExtractPercent(page.percent)
         IN  IF ~p.ok THEN p
             ELSE IF ~c.ok THEN c
             ELSE IF ~q.ok THEN q
             ELSE [ok |-> TRUE,
                   price |-> p.val,
                   change |-> c.val,
                   change_percent |-> q.val,
                   source |-> SourceLive,
                   tx_price |-> calculate_tx_price(p.val),
                   tx_change |-> calculate_tx_change(p.val)]

(***************************************************************************)
(* Lines 157-168: the except clauses, tried in order; the message handed   *)
(* to handle_data_error is the clause's prefix followed by str(e).         *)
(***************************************************************************)
Message(prefix, text) == [prefix |-> prefix, text |-> text]

HandlerMessage(e) ==
    IF "RequestException" \in e.isa THEN Message("network error: ", e.text)
    ELSE IF "ValueError" \in e.isa THEN Message("data format error: ", e.text)
    ELSE IF "FTSEDataError" \in e.isa THEN Message("", e.text)
    ELSE Message("system error: ", e.text)

\* the clauses of lines 157-165 alone, without "except Exception"
CaughtByNamedClauses(e) ==
    \/ "RequestException" \in e.isa
    \/ "ValueError" \in e.isa
    \/ "FTSEDataError" \in e.isa

\* whether one of the except clauses of lines 157-168 catches e
Caught(e) ==
    \/ "RequestException" \in e.isa
    \/ "ValueError" \in e.isa
    \/ "FTSEDataError" \in e.isa
    \/ "Exception" \in e.isa

(***************************************************************************)
(* The responses the model fetches: two well-formed pages and one page for *)
(* each way of failing.                                                    *)
(***************************************************************************)
UpPage ==
    [request |-> NoExc, parser |-> NoExc, region |-> TRUE,
     price   |-> Element(TRUE, TRUE, <<"clr-rd">>, <<"1", ",", "6", "5", "0", ".", "3", "0">>),
     change  |-> Element(TRUE, TRUE, <<"clr-rd">>, <<UpGlyph, "1", "2", ".", "8">>),
     percent |-> Element(TRUE, TRUE, <<"clr-rd">>, <<"+", "0", ".", "7", "8", "%">>)]

DownPage ==
    [request |-> NoExc, parser |-> NoExc, region |-> TRUE,
     price   |-> Element(TRUE, TRUE, <<"clr-gr">>, <<"1", ",", "6", "2", "9", ".", "1", "3">>),
     change  |-> Element(TRUE, TRUE, <<"clr-gr">>, <<DownGlyph, "8", ".", "3", "7">>),
     percent |-> Element(TRUE, TRUE, <<"clr-gr">>, <<"0", ".", "5", "1", "%">>)]

NetworkErrorPage ==
    [UpPage EXCEPT !.request =
        Exc("ConnectionError", {"RequestException", "Exception"}, "timed out")]

ParserValueErrorPage ==
    [UpPage EXCEPT !.parser =
        Exc("FeatureNotFound", {"ValueError", "Exception"}, "no parser")]

UnexpectedErrorPage ==
    [UpPage EXCEPT !.parser = Exc("RuntimeError", {"Exception"}, "unexpected")]

NoRegionPage == [UpPage EXCEPT !.region = FALSE]

BadPricePage == [UpPage EXCEPT !.price.text = <<"-", "-">>]

\* the responses of the concurrent program, and those of the program alone
Pages == {UpPage, DownPage, BadPricePage}
AllPages ==
    {UpPage, DownPage, NetworkErrorPage, ParserValueErrorPage, UnexpectedErrorPage,
     NoRegionPage, BadPricePage}

(***************************************************************************)
(* Threads.  The updater thread first stands for the main thread's call of *)
(* line 331, which completes before the updater is started (line 335).     *)
(***************************************************************************)
Updater == <<"updater", 0>>
Readers == {<<"reader", 1>>}
Spawned == {<<"spawned", i>> : i \in 1..MaxSpawned}
Threads == {Updater} \cup Readers \cup Spawned
NoThread == <<"none", 0>>

\* dict objects: the store refers to one, every reader to at most one
None == 0
ObjIds == 1..(Cardinality(Readers) + 1)

\* the clock at process start: Tuesday 13:44:20, the market closes 40 s later
StartTime == SecondsPerDay + MarketEndSec - 2 * ReadIntervalOpen
TickSteps == {20, 280}

NoResult == [ok |-> FALSE]
NoMessage == Message("", "")

VARIABLES
    now,                \* time.time(), and the Taipei clock
    ticks,              \* clock advances so far
    heap,               \* the dict objects alive: id -> [d: the dict, w: the write that built it]
    ftse_data,          \* the global ftse_data: None or a dict object
    last_update_time,   \* the global last_update_time
    lock,               \* the holder of ftse_lock
    serving,            \* whether requests are served (the module has been loaded)
    pc,                 \* where each thread is
    cont,               \* who called get_ftse_data_from_histock in each thread
    res,                \* the arguments of update_ftse_data in each thread
    cur,                \* update_ftse_data's current_time in each thread
    msg,                \* handle_data_error's error_message in each thread
    wake,               \* when the updater's time.sleep ends
    held,               \* the dict each reader's "data" refers to
    force               \* each reader's force_refresh (line 282)

vars == <<now, ticks, heap, ftse_data, last_update_time, lock, serving,
          pc, cont, res, cur, msg, wake, held, force>>

(***************************************************************************)
(* Dicts.  A dict is a function from its keys to their values.             *)
(***************************************************************************)
\* d[k] = v
WithKey(d, k, v) == [x \in (DOMAIN d) \cup {k} |-> IF x = k THEN v ELSE d[x]]

\* update_ftse_data writing into the dict that is there instead of building one:
\* the fields written last are still those of the dict before
UpdateDictInPlace(price, change, change_percent, source, tx_price, tx_change, current_time, taipei_time, market) ==
    LET old == IF ftse_data = None THEN [change |-> change, changePercent |-> change_percent]
               ELSE heap[ftse_data].d
    IN  [code            |-> "TWN",
         name            |-> "FTSE TW",
         price           |-> price,
         change          |-> old["change"],
         changePercent   |-> old["changePercent"],
         timestamp       |-> current_time,
         taipei_time     |-> taipei_time,
         source          |-> source,
         tx_price        |-> tx_price,
         tx_change       |-> tx_change,
         is_market_hours |-> market]

\* the timestamp taken from the clock inside the "with ftse_lock:" block,
\* last_update_time still being line 203's current_time
UpdateDictStampedInside(price, change, change_percent, source, tx_price, tx_change, current_time, taipei_time, market) ==
    [code            |-> "TWN",
     name            |-> "FTSE TW",
     price           |-> price,
     change          |-> change,
     changePercent   |-> change_percent,
     timestamp       |-> now,
     taipei_time     |-> taipei_time,
     source          |-> source,
     tx_price        |-> tx_price,
     tx_change       |-> tx_change,
     is_market_hours |-> market]

\* the dict that is there updated in place: an "error" entry it has stays
UpdateDictKeepingError(price, change, change_percent, source, tx_price, tx_change, current_time, taipei_time, market) ==
    LET new == [code            |-> "TWN",
                name            |-> "FTSE TW",
                price           |-> price,
                change          |-> change,
                changePercent   |-> change_percent,
                timestamp       |-> current_time,
                taipei_time     |-> taipei_time,
                source          |-> source,
                tx_price        |-> tx_price,
                tx_change       |-> tx_change,
                is_market_hours |-> market]
    IN  IF ftse_data # None /\ "error" \in DOMAIN heap[ftse_data].d
        THEN WithKey(new, "error", heap[ftse_data].d["error"])
        ELSE new

\* lines 207-219: the dict update_ftse_data builds
UpdateDict(price, change, change_percent, source, tx_price, tx_change, current_time, taipei_time, market) ==
    [code            |-> "TWN",
     name            |-> "FTSE TW",
     price           |-> price,
     change          |-> change,
     changePercent   |-> change_percent,
     timestamp       |-> current_time,
     taipei_time     |-> taipei_time,
     source          |-> source,
     tx_price        |-> tx_price,
     tx_change       |-> tx_change,
     is_market_hours |-> market]

\* the default data written without the "error" entry of line 254
DefaultDictNoError(error_message, time, market) ==
    [code            |-> "TWN",
     name            |-> "FTSE TW",
     price           |-> default_price,
     change          |-> default_change,
     changePercent   |-> default_change_percent,
     timestamp       |-> time,
     taipei_time     |-> time,
     source          |-> SourceDefault,
     tx_price        |-> calculate_tx_price(default_price),
     tx_change       |-> calculate_tx_change(default_price),
     is_market_hours |-> market]

\* lines 242-255: the dict handle_data_error builds
DefaultDict(error_message, time, market) ==
    [code            |-> "TWN",
     name            |-> "FTSE TW",
     price           |-> default_price,
     change          |-> default_change,
     changePercent   |-> default_change_percent,
     timestamp       |-> time,
     taipei_time     |-> time,
     source          |-> SourceDefault,
     tx_price        |-> calculate_tx_price(default_price),
     tx_change       |-> calculate_tx_change(default_price),
     error           |-> error_message,
     is_market_hours |-> market]

\* the record of a store write: what was written, for the dict it built
WriteOf(price, change, change_percent, source, tx_price, tx_change, time) ==
    [price |-> price, change |-> change, changePercent |-> change_percent,
     source |-> source, tx_price |-> tx_price, tx_change |-> tx_change,
     timestamp |-> time]

HeldIds == {held[r] : r \in Readers} \ {None}

\* the objects still referred to, given the store's and the readers' references
Collect(h, store, hf) ==
    [o \in ({store} \cup {hf[r] : r \in Readers}) \ {None} |-> h[o]]

\* a fresh object for the store: the first id no reader refers to
FreshId == CHOOSE o \in ObjIds \ HeldIds : \A o2 \in ObjIds \ HeldIds : o <= o2

\* "ftse_data = {...}": the global refers to a new dict
Install(obj) ==
    /\ ftse_data' = FreshId
    /\ heap' = [o \in HeldIds \cup {FreshId} |-> IF o = FreshId THEN obj ELSE heap[o]]

Current == heap[ftse_data].d

(***************************************************************************)
(* Return of get_ftse_data_from_histock in thread t (lines 155, 159-168).  *)
(***************************************************************************)
ReturnPc(t) ==
    CASE cont[t] = "boot" -> "loop"
      [] cont[t] = "loop" -> "loop"
      [] cont[t] = "exit" -> "none"
      [] cont[t] = "get"  -> "get2_wait"
      [] cont[t] = "api"  -> "reget_wait"
      [] cont[t] = "reget" -> "reget2_wait"

Returned(t) ==
    /\ pc' = [pc EXCEPT ![t] = ReturnPc(t)]
    /\ cont' = [cont EXCEPT ![t] = "none"]
    /\ serving' = (serving \/ cont[t] = "boot")

(***************************************************************************)
(* The clock.                                                              *)
(***************************************************************************)
TickUpTo(n, steps) ==
    /\ ticks < n
    /\ \E d \in steps : now' = now + d
    /\ ticks' = ticks + 1
    /\ UNCHANGED <<heap, ftse_data, last_update_time, lock, serving,
                   pc, cont, res, cur, msg, wake, held, force>>

Tick == TickUpTo(MaxTicks, TickSteps)

(***************************************************************************)
(* "with ftse_lock:" entered (lines 206, 231, 241, 263, 275): the thread   *)
(* waits for the lock and for nothing else.  The stages named "reget" are  *)
(* those of the call of get_ftse_data at line 288.                         *)
(***************************************************************************)
LockedPc(p) ==
    CASE p = "upd_wait"  -> "upd_cs"
      [] p = "err_wait"  -> "err_cs"
      [] p = "def_wait"  -> "def_cs"
      [] p = "get_wait"  -> "get_cs"
      [] p = "get2_wait" -> "get2_cs"
      [] p = "reget_wait" -> "reget_cs"
      [] p = "reget2_wait" -> "reget2_cs"

WaitPcs ==
    {"upd_wait", "err_wait", "def_wait", "get_wait", "get2_wait", "reget_wait", "reget2_wait"}

Acquire(t) ==
    /\ pc[t] \in WaitPcs
    /\ lock = NoThread
    /\ lock' = t
    /\ pc' = [pc EXCEPT ![t] = LockedPc(pc[t])]
    /\ UNCHANGED <<now, ticks, heap, ftse_data, last_update_time, serving,
                   cont, res, cur, msg, wake, held, force>>

(***************************************************************************)
(* get_ftse_data_from_histock, lines 85-168 up to the call of              *)
(* update_ftse_data or handle_data_error: the response arrives and is      *)
(* parsed.  On success update_ftse_data reads the clock (line 203) before  *)
(* it asks for the lock.  An exception that no except clause catches       *)
(* leaves the function ("uncaught").                                       *)
(***************************************************************************)
FetchFrom(t, pages) ==
    /\ pc[t] = "fetch"
    /\ \E page \in pages :
         LET r == Extract(page)
         IN  IF r.ok
             THEN /\ res' = [res EXCEPT ![t] = r]
                  /\ cur' = [cur EXCEPT ![t] = now]
                  /\ pc' = [pc EXCEPT ![t] = "upd_wait"]
                  /\ msg' = msg
             ELSE IF Caught(r.exc)
             THEN /\ msg' = [msg EXCEPT ![t] = HandlerMessage(r.exc)]
                  /\ pc' = [pc EXCEPT ![t] = "err_wait"]
                  /\ UNCHANGED <<res, cur>>
             ELSE /\ pc' = [pc EXCEPT ![t] = "uncaught"]
                  /\ UNCHANGED <<res, cur, msg>>
    /\ UNCHANGED <<now, ticks, heap, ftse_data, last_update_time, lock, serving,
                   cont, wake, held, force>>

Fetch(t) == FetchFrom(t, Pages)
FetchAny(t) == FetchFrom(t, AllPages)

(***************************************************************************)
(* update_ftse_data, lines 206-220 and the return of line 155.             *)
(***************************************************************************)
UpdateWrite(t) ==
    /\ pc[t] = "upd_cs"
    /\ lock = t
    /\ Install([d |-> UpdateDict(res[t].price, res[t].change, res[t].change_percent,
                                 res[t].source, res[t].tx_price, res[t].tx_change,
                                 cur[t], cur[t], IsMarketHoursAt(now)),
                w |-> WriteOf(res[t].price, res[t].change, res[t].change_percent,
                              res[t].source, res[t].tx_price, res[t].tx_change, cur[t])])
    /\ last_update_time' = cur[t]
    /\ lock' = NoThread
    /\ res' = [res EXCEPT ![t] = NoResult]
    /\ cur' = [cur EXCEPT ![t] = 0]
    /\ Returned(t)
    /\ UNCHANGED <<now, ticks, msg, wake, held, force>>

(***************************************************************************)
(* handle_data_error, lines 231-235: the last data is reused if it was     *)
(* written less than 300 s ago; otherwise the lock is released (line 237). *)
(***************************************************************************)
\* data taken as valid whatever its age
StillValidWhenPresent == ftse_data # None
\* the window of get_ftse_data's market-hours interval used for the validity test
StillValidShortWindow == ftse_data # None /\ now - last_update_time < ReadIntervalOpen
\* data written exactly 300 s ago still taken as valid
StillValidInclusive == ftse_data # None /\ now - last_update_time <= ValidityWindow

StillValid == ftse_data # None /\ now - last_update_time < ValidityWindow

ErrorCheck(t) ==
    /\ pc[t] = "err_cs"
    /\ lock = t
    /\ lock' = NoThread
    /\ IF StillValid
       THEN /\ heap' = [heap EXCEPT ![ftse_data].d = WithKey(@, "error", msg[t])]
            /\ msg' = [msg EXCEPT ![t] = NoMessage]
            /\ Returned(t)
       ELSE /\ pc' = [pc EXCEPT ![t] = "def_wait"]
            /\ UNCHANGED <<heap, msg, cont, serving>>
    /\ UNCHANGED <<now, ticks, ftse_data, last_update_time, res, cur, wake, held, force>>

(***************************************************************************)
(* handle_data_error, lines 241-257: the default data is written.          *)
(***************************************************************************)
DefaultWrite(t) ==
    /\ pc[t] = "def_cs"
    /\ lock = t
    /\ Install([d |-> DefaultDict(msg[t], now, IsMarketHoursAt(now)),
                w |-> WriteOf(default_price, default_change, default_change_percent,
                              SourceDefault, calculate_tx_price(default_price),
                              calculate_tx_change(default_price), now)])
    /\ last_update_time' = now
    /\ lock' = NoThread
    /\ msg' = [msg EXCEPT ![t] = NoMessage]
    /\ Returned(t)
    /\ UNCHANGED <<now, ticks, res, cur, wake, held, force>>

(***************************************************************************)
(* A reader is a thread that serves a request: api_get_ftse_data reads the *)
(* request's "refresh" argument (line 282) and calls get_ftse_data (line   *)
(* 283).  The refresh threads in flight are bounded by MaxSpawned: a       *)
(* request arrives while each of its two calls of get_ftse_data can still  *)
(* start one.                                                              *)
(***************************************************************************)
FreeSlots == {s \in Spawned : pc[s] = "none"}
FirstFreeSlot == CHOOSE s \in FreeSlots : \A s2 \in FreeSlots : s[2] <= s2[2]

CallGet(r) ==
    /\ serving
    /\ pc[r] = "idle"
    /\ \E s1, s2 \in FreeSlots : s1 # s2
    /\ \E refresh \in BOOLEAN : force' = [force EXCEPT ![r] = refresh]
    /\ pc' = [pc EXCEPT ![r] = "get_wait"]
    /\ UNCHANGED <<now, ticks, heap, ftse_data, last_update_time, lock, serving,
                   cont, res, cur, msg, wake, held>>

(***************************************************************************)
(* get_ftse_data, lines 263-270, with data present: a refresh thread is    *)
(* started if the data is older than the interval, and the global's dict   *)
(* is returned.  The call of line 283 returns to line 285 ("got"), the     *)
(* call of line 288 to line 291 ("note").                                  *)
(***************************************************************************)
UpdateInterval(t) == IF IsMarketHoursAt(t) THEN ReadIntervalOpen ELSE ReadIntervalClosed

\* data exactly as old as the interval taken as stale
StaleInclusive == now - last_update_time >= UpdateInterval(now)

Stale == now - last_update_time > UpdateInterval(now)

\* what "return ftse_data" gives the caller
ReturnedData == ftse_data

\* where get_ftse_data returns to
GetReturnPc(p) == IF p \in {"get_cs", "get2_cs"} THEN "got" ELSE "note"

GetLocked(r) ==
    /\ pc[r] \in {"get_cs", "reget_cs"}
    /\ lock = r
    /\ ftse_data # None
    /\ IF Stale
       THEN /\ pc' = [pc EXCEPT ![r] = GetReturnPc(pc[r]), ![FirstFreeSlot] = "fetch"]
            /\ cont' = [cont EXCEPT ![FirstFreeSlot] = "exit"]
       ELSE /\ pc' = [pc EXCEPT ![r] = GetReturnPc(pc[r])]
            /\ cont' = cont
    /\ held' = [held EXCEPT ![r] = ReturnedData]
    /\ heap' = Collect(heap, ftse_data, held')
    /\ lock' = NoThread
    /\ UNCHANGED <<now, ticks, ftse_data, last_update_time, serving,
                   res, cur, msg, wake, force>>

(***************************************************************************)
(* get_ftse_data, lines 263-273, with no data: the lock is released and    *)
(* get_ftse_data_from_histock is called in the caller's thread.            *)
(***************************************************************************)
\* the call of line 273 made inside the "with ftse_lock:" block
GetEmptyInsideLock(r) ==
    /\ pc[r] \in {"get_cs", "reget_cs"}
    /\ lock = r
    /\ ftse_data = None
    /\ lock' = lock
    /\ pc' = [pc EXCEPT ![r] = "fetch"]
    /\ cont' = [cont EXCEPT ![r] = IF pc[r] = "get_cs" THEN "get" ELSE "reget"]
    /\ UNCHANGED <<now, ticks, heap, ftse_data, last_update_time, serving,
                   res, cur, msg, wake, held, force>>

GetEmpty(r) ==
    /\ pc[r] \in {"get_cs", "reget_cs"}
    /\ lock = r
    /\ ftse_data = None
    /\ lock' = NoThread
    /\ pc' = [pc EXCEPT ![r] = "fetch"]
    /\ cont' = [cont EXCEPT ![r] = IF pc[r] = "get_cs" THEN "get" ELSE "reget"]
    /\ UNCHANGED <<now, ticks, heap, ftse_data, last_update_time, serving,
                   res, cur, msg, wake, held, force>>

(***************************************************************************)
(* get_ftse_data, lines 275-276: the global is returned after the call.    *)
(***************************************************************************)
GetAfterRefresh(r) ==
    /\ pc[r] \in {"get2_cs", "reget2_cs"}
    /\ lock = r
    /\ lock' = NoThread
    /\ held' = [held EXCEPT ![r] = ReturnedData]
    /\ heap' = Collect(heap, ftse_data, held')
    /\ pc' = [pc EXCEPT ![r] = GetReturnPc(pc[r])]
    /\ UNCHANGED <<now, ticks, ftse_data, last_update_time, serving,
                   cont, res, cur, msg, wake, force>>

(***************************************************************************)
(* api_get_ftse_data, lines 285-287: with refresh=true, or with the dict   *)
(* it got older by its own timestamp than the interval, the handler calls  *)
(* get_ftse_data_from_histock in its own thread, and get_ftse_data once    *)
(* more when that call has returned (line 288).                            *)
(***************************************************************************)
ApiCheck(r) ==
    /\ pc[r] = "got"
    /\ IF force[r] \/ now - heap[held[r]].d["timestamp"] > UpdateInterval(now)
       THEN /\ pc' = [pc EXCEPT ![r] = "fetch"]
            /\ cont' = [cont EXCEPT ![r] = "api"]
       ELSE /\ pc' = [pc EXCEPT ![r] = "note"]
            /\ cont' = cont
    /\ force' = [force EXCEPT ![r] = FALSE]
    /\ UNCHANGED <<now, ticks, heap, ftse_data, last_update_time, lock, serving,
                   res, cur, msg, wake, held>>

(***************************************************************************)
(* api_get_ftse_data, line 291: request_time is written into the dict the  *)
(* handler has, without the lock.                                          *)
(***************************************************************************)
Annotate(r) ==
    /\ pc[r] = "note"
    /\ heap' = [heap EXCEPT ![held[r]].d = WithKey(@, "request_time", now)]
    /\ pc' = [pc EXCEPT ![r] = "note2"]
    /\ UNCHANGED <<now, ticks, ftse_data, last_update_time, lock, serving,
                   cont, res, cur, msg, wake, held, force>>

(***************************************************************************)
(* api_get_ftse_data, lines 292-294: server_time is written into the dict, *)
(* the response is made of its content and the reference is dropped.       *)
(***************************************************************************)
Respond(r) ==
    /\ pc[r] = "note2"
    /\ held' = [held EXCEPT ![r] = None]
    /\ heap' = Collect([heap EXCEPT ![held[r]].d = WithKey(@, "server_time", now)],
                       ftse_data, held')
    /\ pc' = [pc EXCEPT ![r] = "idle"]
    /\ UNCHANGED <<now, ticks, ftse_data, last_update_time, lock, serving,
                   cont, res, cur, msg, wake, force>>

(***************************************************************************)
(* run_background_update, lines 305-309: the interval is chosen and the    *)
(* thread sleeps.                                                          *)
(***************************************************************************)
\* the updater's intervals the other way round
SleepIntervalSwapped(t) == IF IsMarketHoursAt(t) THEN SleepClosed ELSE SleepOpen

SleepInterval(t) == IF IsMarketHoursAt(t) THEN SleepOpen ELSE SleepClosed

UpdaterSleep ==
    /\ pc[Updater] = "loop"
    /\ wake' = now + SleepInterval(now)
    /\ pc' = [pc EXCEPT ![Updater] = "sleep"]
    /\ UNCHANGED <<now, ticks, heap, ftse_data, last_update_time, lock, serving,
                   cont, res, cur, msg, held, force>>

(***************************************************************************)
(* run_background_update, lines 309-312: the sleep ends and                *)
(* get_ftse_data_from_histock is called.                                   *)
(***************************************************************************)
UpdaterWake ==
    /\ pc[Updater] = "sleep"
    /\ now >= wake
    /\ wake' = 0
    /\ pc' = [pc EXCEPT ![Updater] = "fetch"]
    /\ cont' = [cont EXCEPT ![Updater] = "loop"]
    /\ UNCHANGED <<now, ticks, heap, ftse_data, last_update_time, lock, serving,
                   res, cur, msg, held, force>>

(***************************************************************************)
(* run_background_update, lines 314-316: an exception that escapes the     *)
(* call of line 312 (one raised outside the clauses of lines 157-168) is   *)
(* logged and the thread sleeps 5 s.                                       *)
(***************************************************************************)
UpdaterFault ==
    /\ pc[Updater] = "fetch"
    /\ cont[Updater] = "loop"
    /\ wake' = now + SleepAfterError
    /\ pc' = [pc EXCEPT ![Updater] = "errsleep"]
    /\ cont' = [cont EXCEPT ![Updater] = "none"]
    /\ UNCHANGED <<now, ticks, heap, ftse_data, last_update_time, lock, serving,
                   res, cur, msg, held, force>>

(***************************************************************************)
(* run_background_update, line 316 and back to line 305.                   *)
(***************************************************************************)
UpdaterResume ==
    /\ pc[Updater] = "errsleep"
    /\ now >= wake
    /\ wake' = 0
    /\ pc' = [pc EXCEPT ![Updater] = "loop"]
    /\ UNCHANGED <<now, ticks, heap, ftse_data, last_update_time, lock, serving,
                   cont, res, cur, msg, held, force>>

(***************************************************************************)
(* The program: lines 26-28 give the globals, line 331 makes the first     *)
(* call of get_ftse_data_from_histock, and requests are served once the    *)
(* module is loaded.                                                       *)
(***************************************************************************)
InitThreads ==
    /\ pc = [t \in Threads |->
                IF t = Updater THEN "fetch" ELSE IF t \in Readers THEN "idle" ELSE "none"]
    /\ cont = [t \in Threads |-> IF t = Updater THEN "boot" ELSE "none"]
    /\ res = [t \in Threads |-> NoResult]
    /\ cur = [t \in Threads |-> 0]
    /\ msg = [t \in Threads |-> NoMessage]
    /\ wake = 0
    /\ held = [r \in Readers |-> None]
    /\ force = [r \in Readers |-> FALSE]

InitStore ==
    /\ now = StartTime
    /\ ticks = 0
    /\ heap = <<>>
    /\ ftse_data = None
    /\ last_update_time = 0
    /\ lock = NoThread

Init == InitStore /\ InitThreads /\ serving = FALSE

NextThreads ==
    \/ \E t \in Threads : Acquire(t)
    \/ \E t \in Threads : Fetch(t)
    \/ \E t \in Threads : UpdateWrite(t)
    \/ \E t \in Threads : ErrorCheck(t)
    \/ \E t \in Threads : DefaultWrite(t)
    \/ \E r \in Readers : CallGet(r)
    \/ \E r \in Readers : GetLocked(r)
    \/ \E r \in Readers : ApiCheck(r)
    \/ \E r \in Readers : Annotate(r)
    \/ \E r \in Readers : Respond(r)
    \/ UpdaterSleep
    \/ UpdaterWake
    \/ UpdaterFault
    \/ UpdaterResume

Next == Tick \/ NextThreads

Spec == Init /\ [][Next]_vars

(***************************************************************************)
(* get_ftse_data called with the store still empty: the same program with  *)
(* callers of get_ftse_data admitted from the start, while the first call  *)
(* of get_ftse_data_from_histock is still in flight, and followed for      *)
(* MaxColdTicks advances of the clock.                                     *)
(***************************************************************************)
\* the clock advances of the cold start: the market stays open
ColdTickSteps == {20}

TickCold == TickUpTo(MaxColdTicks, ColdTickSteps)

InitCold == InitStore /\ InitThreads /\ serving = TRUE

NextCold ==
    \/ TickCold
    \/ NextThreads
    \/ \E r \in Readers : GetEmpty(r)
    \/ \E r \in Readers : GetAfterRefresh(r)

SpecCold == InitCold /\ [][NextCold]_vars

(***************************************************************************)
(* The program with no request arriving: the first call and the updater,   *)
(* over every response of the model.                                       *)
(***************************************************************************)
NextAlone ==
    \/ Tick
    \/ Acquire(Updater)
    \/ FetchAny(Updater)
    \/ UpdateWrite(Updater)
    \/ ErrorCheck(Updater)
    \/ DefaultWrite(Updater)
    \/ UpdaterSleep
    \/ UpdaterWake
    \/ UpdaterFault
    \/ UpdaterResume

SpecAlone == Init /\ [][NextAlone]_vars

(***************************************************************************)
(* The first call of get_ftse_data_from_histock (line 331) on its own,     *)
(* over responses whose change and percent texts run through the ways of   *)
(* writing a sign: with or without a minus sign, with the down glyph       *)
(* before the number, after it or absent, in a span of either class.  Each *)
(* text has a magnitude of its own, so that a result tells its text.       *)
(***************************************************************************)
ChangeTexts ==
    {<<"5", ".", "1">>,
     <<DownGlyph, "5", ".", "2">>,
     <<"5", ".", "3", DownGlyph>>,
     <<"-", "5", ".", "4">>,
     <<DownGlyph, "-", "5", ".", "5">>,
     <<"-", "5", ".", "6", DownGlyph>>}

PercentTexts ==
    {<<"0", ".", "5", "1", "%">>,
     <<DownGlyph, "0", ".", "5", "2", "%">>,
     <<"0", ".", "5", "3", "%", DownGlyph>>,
     <<"-", "0", ".", "5", "4", "%">>,
     <<DownGlyph, "-", "0", ".", "5", "5", "%">>,
     <<"-", "0", ".", "5", "6", "%", DownGlyph>>}

SpanClasses == {<<"clr-rd">>, <<"clr-gr">>}

SignPages ==
    {[UpPage EXCEPT !.change = Element(TRUE, TRUE, cc, ct),
                    !.percent = Element(TRUE, TRUE, pc_, pt)] :
        ct \in ChangeTexts, cc \in SpanClasses,
        pt \in PercentTexts, pc_ \in SpanClasses}

FetchSigned(t) == FetchFrom(t, SignPages)

NextSign ==
    \/ Tick
    \/ Acquire(Updater)
    \/ FetchSigned(Updater)
    \/ UpdateWrite(Updater)
    \/ ErrorCheck(Updater)
    \/ DefaultWrite(Updater)

SpecSign == Init /\ [][NextSign]_vars

(***************************************************************************)
(* The first call again, over responses whose price text runs through the  *)
(* decimal values of a range around zero, in thousandths, and the values   *)
(* 1637.12, 1637.13 and 1637.99.  The change span of such a page shows the *)
(* same number as the price span: the change is stored as parsed, so the   *)
(* arguments of update_ftse_data hold the value next to its rounding.      *)
(***************************************************************************)
\* str(n) for n >= 0
RECURSIVE DecimalDigits(_)
DecimalDigits(n) ==
    IF n < 10 THEN <<DigitChars[n + 1]>>
    ELSE DecimalDigits(n \div 10) \o <<DigitChars[(n % 10) + 1]>>

\* the text of a value in thousandths, with three decimals
DecimalText(v) ==
    LET m == IF v < 0 THEN -v ELSE v
        f == m % Scale
    IN  (IF v < 0 THEN <<"-">> ELSE <<>>)
        \o DecimalDigits(m \div Scale) \o <<".">>
        \o <<DigitChars[(f \div 100) + 1], DigitChars[((f \div 10) % 10) + 1],
             DigitChars[(f % 10) + 1]>>

QuarterInputs ==
    (-MaxQuarterInput..MaxQuarterInput) \cup {1637120, 1637130, 1637990}

QuarterPages ==
    {[UpPage EXCEPT !.price.text = DecimalText(v), !.change.text = DecimalText(v)] :
        v \in QuarterInputs} \cup {BadPricePage}

FetchQuarter(t) == FetchFrom(t, QuarterPages)

NextQuarter ==
    \/ Tick
    \/ Acquire(Updater)
    \/ FetchQuarter(Updater)
    \/ UpdateWrite(Updater)
    \/ ErrorCheck(Updater)
    \/ DefaultWrite(Updater)

SpecQuarter == Init /\ [][NextQuarter]_vars

(***************************************************************************)
(* The program with no request arriving, started at any day of the week at *)
(* midnight, at the second before midnight, or one second before, at or    *)
(* after either end of the market window.                                  *)
(***************************************************************************)
StartTimesOfDay ==
    {0, MarketStartSec - 1, MarketStartSec, MarketStartSec + 1,
     MarketEndSec - 1, MarketEndSec, MarketEndSec + 1, SecondsPerDay - 1}

WeekInstants == {d * SecondsPerDay + s : d \in 0..6, s \in StartTimesOfDay}

InitWeek ==
    /\ now \in WeekInstants
    /\ ticks = 0
    /\ heap = <<>>
    /\ ftse_data = None
    /\ last_update_time = 0
    /\ lock = NoThread
    /\ InitThreads
    /\ serving = FALSE

SpecWeek == InitWeek /\ [][NextAlone]_vars

(***************************************************************************)
(* Recovery and outage: the whole program (updater, requests and the       *)
(* refresh threads they start) with well-formed and failing responses      *)
(* until the clock has advanced TurnTick times and, from then on, with     *)
(* well-formed responses only (recovery) or failing responses only         *)
(* (outage).  A refresh that failed before the turn may still be in        *)
(* flight after it.  No exception escapes a refresh.                       *)
(***************************************************************************)
EarlyPages == {UpPage, BadPricePage}
GoodPages == {DownPage}
BadPages == {BadPricePage}

FetchRecovering(t) == FetchFrom(t, IF ticks < TurnTick THEN EarlyPages ELSE GoodPages)
FetchFailing(t) == FetchFrom(t, IF ticks < TurnTick THEN EarlyPages ELSE BadPages)

NextRecovery ==
    \/ Tick
    \/ \E t \in Threads : Acquire(t)
    \/ \E t \in Threads : FetchRecovering(t)
    \/ \E t \in Threads : UpdateWrite(t)
    \/ \E t \in Threads : ErrorCheck(t)
    \/ \E t \in Threads : DefaultWrite(t)
    \/ \E r \in Readers : CallGet(r)
    \/ \E r \in Readers : GetLocked(r)
    \/ \E r \in Readers : ApiCheck(r)
    \/ \E r \in Readers : Annotate(r)
    \/ \E r \in Readers : Respond(r)
    \/ UpdaterSleep
    \/ UpdaterWake

NextOutage ==
    \/ Tick
    \/ \E t \in Threads : Acquire(t)
    \/ \E t \in Threads : FetchFailing(t)
    \/ \E t \in Threads : UpdateWrite(t)
    \/ \E t \in Threads : ErrorCheck(t)
    \/ \E t \in Threads : DefaultWrite(t)
    \/ \E r \in Readers : CallGet(r)
    \/ \E r \in Readers : GetLocked(r)
    \/ \E r \in Readers : ApiCheck(r)
    \/ \E r \in Readers : Annotate(r)
    \/ \E r \in Readers : Respond(r)
    \/ UpdaterSleep
    \/ UpdaterWake

(***************************************************************************)
(* Fair scheduling of the updater, with no request arriving: the clock     *)
(* advances, the thread runs whenever it has a step to take, and it gets   *)
(* the lock it asks for.  Nothing obliges an exception to escape the       *)
(* refresh.                                                                *)
(***************************************************************************)
Fairness ==
    /\ WF_vars(Tick)
    /\ WF_vars(Acquire(Updater))
    /\ WF_vars(FetchAny(Updater))
    /\ WF_vars(UpdateWrite(Updater))
    /\ WF_vars(ErrorCheck(Updater))
    /\ WF_vars(DefaultWrite(Updater))
    /\ WF_vars(UpdaterSleep)
    /\ WF_vars(UpdaterWake)
    /\ WF_vars(UpdaterResume)

FairSpec == SpecAlone /\ Fairness

(***************************************************************************)
(* Fair scheduling among all the threads.  The holder of ftse_lock leaves  *)
(* its "with" block (no block waits for anything), the clock advances, and *)
(* the updater gets the lock it asks for, has its response and sleeps and  *)
(* wakes: that is the fair scheduling of the updater.  With the other      *)
(* threads scheduled fairly as well, each of them gets the lock it asks    *)
(* for, has its response, and the handler of a request goes on to its end. *)
(* No request has to arrive.  Every fetch step is a FetchAny step, and     *)
(* FetchAny is enabled exactly when a specification's own fetch action is. *)
(***************************************************************************)
LockedStep ==
    \E t \in Threads :
        \/ UpdateWrite(t)
        \/ ErrorCheck(t)
        \/ DefaultWrite(t)
        \/ t \in Readers /\ GetLocked(t)

FairUpdater ==
    /\ WF_vars(Tick)
    /\ WF_vars(LockedStep)
    /\ SF_vars(Acquire(Updater))
    /\ WF_vars(FetchAny(Updater))
    /\ WF_vars(UpdaterSleep)
    /\ WF_vars(UpdaterWake)

FairRefreshes ==
    /\ \A t \in Threads \ {Updater} : SF_vars(Acquire(t))
    /\ \A t \in Threads \ {Updater} : WF_vars(FetchAny(t))
    /\ \A r \in Readers : WF_vars(ApiCheck(r) \/ Annotate(r) \/ Respond(r))

SpecRecovery == Init /\ [][NextRecovery]_vars /\ FairUpdater /\ FairRefreshes

SpecOutage == Init /\ [][NextOutage]_vars /\ FairUpdater

(***************************************************************************)
(* Properties.                                                             *)
(***************************************************************************)
\* the keys every snapshot carries
RequiredKeys ==
    {"code", "name", "price", "change", "changePercent", "timestamp", "source",
     "tx_price", "tx_change", "is_market_hours"}
\* the keys whose values one store write provides
WrittenKeys ==
    {"price", "change", "changePercent", "timestamp", "source", "tx_price", "tx_change"}

InFlight == {s \in Spawned : pc[s] # "none"}

\* thread t leaves handle_data_error's first block in this step
ChecksError(t) == pc[t] = "err_cs" /\ pc'[t] # "err_cs"
\* thread t writes the default data in this step
WritesDefault(t) == pc[t] = "def_cs" /\ pc'[t] # "def_cs"
\* get_ftse_data returns to reader r in this step
GetReturns(r) ==
    \/ pc[r] \in {"get_cs", "get2_cs"} /\ pc'[r] = "got"
    \/ pc[r] \in {"reget_cs", "reget2_cs"} /\ pc'[r] = "note"

(***************************************************************************)
(* C1.  Every snapshot a get_ftse_data call has returned is a whole        *)
(* snapshot made by one store write: it has every required key, and its    *)
(* price, change, changePercent, timestamp, source, tx_price and tx_change *)
(* are the values of the one write that built that dict (an error may have *)
(* been stamped on it since).                                              *)
(***************************************************************************)
WholeSnapshot(o) ==
    /\ RequiredKeys \subseteq DOMAIN o.d
    /\ \A k \in WrittenKeys : o.d[k] = o.w[k]

C1_ReturnedSnapshotIsWhole ==
    \A r \in Readers : held[r] # None => WholeSnapshot(heap[held[r]])

\* a reader holds a snapshot that the store has replaced since, while
\* refresh threads are in flight
C1_Witness ==
    \E r \in Readers :
        /\ held[r] # None
        /\ ftse_data # held[r]
        /\ heap[ftse_data].d["price"] # heap[held[r]].d["price"]
        /\ InFlight # {}

(***************************************************************************)
(* C2.  When handle_data_error runs with a snapshot present that was       *)
(* captured less than 300 s before, the current snapshot afterwards is the *)
(* same dict with the same price, change, changePercent, tx_price,         *)
(* tx_change, source and timestamp, and its error is the message of that   *)
(* failure; the call has returned.                                         *)
(***************************************************************************)
C2_ReuseWithinWindow ==
    [][\A t \in Threads :
          (/\ ChecksError(t)
           /\ ftse_data # None
           /\ now - Current["timestamp"] < 300)
          => /\ ftse_data' = ftse_data
             /\ \A k \in WrittenKeys : Current'[k] = Current[k]
             /\ "error" \in DOMAIN Current'
             /\ Current'["error"] = msg[t]
             /\ pc'[t] = ReturnPc(t)]_vars

\* live data captured earlier carries the error of a later failure
C2_Witness ==
    /\ ftse_data # None
    /\ Current["source"] = SourceLive
    /\ "error" \in DOMAIN Current
    /\ Current["error"] = Message("", "cannot parse price")
    /\ now - Current["timestamp"] = 20

(***************************************************************************)
(* C3.  When handle_data_error runs with no snapshot, or with a snapshot   *)
(* captured 300 s before or earlier, it goes on to write the default; and  *)
(* the write of the default leaves as current snapshot price 1637.5,       *)
(* change -68.3, changePercent -4.0, the default source, the values        *)
(* derived from 1637.5, the time of the write as timestamp and the         *)
(* failure's message as error.                                             *)
(***************************************************************************)
C3_DefaultWhenExpired ==
    [][\A t \in Threads :
          /\ (ChecksError(t) /\ (ftse_data = None \/ now - Current["timestamp"] >= 300))
             => /\ pc'[t] = "def_wait"
                /\ msg'[t] = msg[t]
                /\ UNCHANGED <<heap, ftse_data, last_update_time>>
          /\ WritesDefault(t)
             => /\ ftse_data' # None
                /\ Current'["price"] = 1637500
                /\ Current'["change"] = -68300
                /\ Current'["changePercent"] = -4000
                /\ Current'["source"] = SourceDefault
                /\ Current'["tx_price"] = 20110
                /\ Current'["tx_change"] = 20110 - 27556
                /\ Current'["timestamp"] = now
                /\ Current'["error"] = msg[t]
                /\ pc'[t] = ReturnPc(t)]_vars

\* the default is current, written over live data that was exactly 300 s old
C3_Witness ==
    /\ ftse_data # None
    /\ Current["source"] = SourceDefault
    /\ Current["timestamp"] = StartTime + 300
    /\ last_update_time = Current["timestamp"]
    /\ \E r \in Readers :
          /\ held[r] # None
          /\ heap[held[r]].d["source"] = SourceLive
          /\ heap[held[r]].d["timestamp"] = StartTime

(***************************************************************************)
(* C4.  With data present get_ftse_data returns the current dict in the    *)
(* step that holds the lock, whatever refreshes are in flight; it starts   *)
(* exactly one refresh thread if now - last_update_time exceeds 20 s       *)
(* (market open) or 300 s (market closed), whether or not refreshes are    *)
(* already in flight, and none otherwise.                                  *)
(***************************************************************************)
C4_ReadStartsOneRefreshWhenStale ==
    [][\A r \in Readers :
          (pc[r] \in {"get_cs", "reget_cs"} /\ pc'[r] # pc[r] /\ ftse_data # None)
          => /\ pc'[r] = (IF pc[r] = "get_cs" THEN "got" ELSE "note")
             /\ held'[r] = ftse_data
             /\ heap'[ftse_data] = heap[ftse_data]
             /\ UNCHANGED <<ftse_data, last_update_time>>
             /\ IF now - last_update_time > (IF IsMarketHoursAt(now) THEN 20 ELSE 300)
                THEN /\ Cardinality(InFlight') = Cardinality(InFlight) + 1
                     /\ \A s \in InFlight' \ InFlight : pc'[s] = "fetch"
                ELSE InFlight' = InFlight]_vars

\* two refresh threads started by reads of the same stale data are in flight
\* and the reader has its answer
C4_Witness ==
    /\ Cardinality(InFlight) = 2
    /\ \A s \in Spawned : pc[s] = "fetch"
    /\ \E r \in Readers : pc[r] = "note" /\ held[r] = ftse_data

(***************************************************************************)
(* C5.  Every call of get_ftse_data returns a dict, never None, whose      *)
(* source is the live one or which is the default data carrying an error   *)
(* message; a call that finds no data calls get_ftse_data_from_histock in  *)
(* its own thread before it returns; every return of                       *)
(* get_ftse_data_from_histock leaves data in the store, and the store,     *)
(* once filled, is never empty again.                                      *)
(***************************************************************************)
LiveOrDefaultWithError(d) ==
    \/ d["source"] = SourceLive
    \/ /\ d["source"] = SourceDefault
       /\ d["price"] = default_price
       /\ "error" \in DOMAIN d
       /\ d["error"] # NoMessage

RefreshStages == {"upd_cs", "err_cs", "def_cs"}

C5_GetAlwaysReturnsData ==
    [][/\ \A r \in Readers :
            /\ GetReturns(r)
               => /\ held'[r] # None
                  /\ held'[r] = ftse_data'
                  /\ LiveOrDefaultWithError(heap'[held'[r]].d)
            /\ (pc[r] = "get_cs" /\ pc'[r] # "get_cs" /\ ftse_data = None)
               => pc'[r] = "fetch" /\ cont'[r] = "get" /\ held'[r] = None
            /\ pc'[r] = "get2_wait" => pc[r] \in RefreshStages \cup {"get2_wait"}
       /\ \A t \in Threads :
            (pc[t] \in RefreshStages /\ pc'[t] = ReturnPc(t)) => ftse_data' # None
       /\ ftse_data # None => ftse_data' # None]_vars

\* a call that found the store empty has made its own refresh, which failed,
\* and is about to return the default data with the failure's message
C5_Witness ==
    \E r \in Readers :
        /\ pc[r] = "get2_cs"
        /\ ftse_data # None
        /\ Current["source"] = SourceDefault
        /\ Current["error"] = Message("", "cannot parse price")
        /\ pc[Updater] = "fetch"
        /\ cont[Updater] = "boot"

(***************************************************************************)
(* C6.  The timestamp of the current data never decreases from one write   *)
(* of the store to the next.                                               *)
(***************************************************************************)
C6_TimestampNeverDecreases ==
    [][(ftse_data # None /\ ftse_data' # None)
        => Current'["timestamp"] >= Current["timestamp"]]_vars

(***************************************************************************)
(* C7.  Every failed refresh, the one that reuses the last data as well    *)
(* as the one that writes the default, sets last_update_time to the time   *)
(* of that attempt, and the reuse leaves the data's timestamp as it was.   *)
(***************************************************************************)
C7_FailureSetsLastUpdateTime ==
    [][\A t \in Threads :
          /\ (ChecksError(t) /\ pc'[t] # "def_wait")
             => /\ last_update_time' = now
                /\ Current'["timestamp"] = Current["timestamp"]
          /\ WritesDefault(t) => last_update_time' = now]_vars

(***************************************************************************)
(* C8.  The dict a get_ftse_data call has returned is the caller's own: no *)
(* step of another thread changes its content while the caller holds it,   *)
(* and what the caller writes into it does not show in the store's         *)
(* current data.                                                           *)
(***************************************************************************)
C8_ReturnedSnapshotIsACopy ==
    [][\A r \in Readers :
          /\ (held[r] # None /\ held'[r] = held[r] /\ pc'[r] = pc[r])
             => heap'[held[r]].d = heap[held[r]].d
          /\ (pc[r] \in {"note", "note2"} /\ pc'[r] # pc[r] /\ ftse_data # None)
             => heap'[ftse_data].d = heap[ftse_data].d]_vars

(***************************************************************************)
(* C9.  Whatever the response, a call of get_ftse_data_from_histock that   *)
(* fails goes to handle_data_error with a message and returns to its       *)
(* caller: no exception of the fetch or of the extraction leaves the       *)
(* function, handle_data_error is entered only from the failed fetch, with *)
(* the message of the except clause that caught the exception, and is left *)
(* only by the function's return.                                          *)
(***************************************************************************)
ErrorStages == {"err_wait", "err_cs", "def_wait", "def_cs"}

C9_FetchFailuresAreHandled ==
    [][\A t \in Threads :
          /\ pc'[t] # "uncaught"
          /\ (pc[t] = "fetch" /\ pc'[t] \notin {"fetch", "errsleep"})
             => \E page \in AllPages :
                   LET r == Extract(page)
                   IN  IF r.ok
                       THEN pc'[t] = "upd_wait" /\ res'[t] = r
                       ELSE /\ pc'[t] = "err_wait"
                            /\ msg'[t] = HandlerMessage(r.exc)
                            /\ msg'[t] # NoMessage
                            /\ cont'[t] = cont[t]
          /\ (pc'[t] = "err_wait" /\ pc[t] # "err_wait") => pc[t] = "fetch"
          /\ (pc[t] \in ErrorStages /\ pc'[t] \notin ErrorStages)
             => /\ pc[t] \in {"err_cs", "def_cs"}
                /\ pc'[t] = ReturnPc(t)
                /\ msg'[t] = NoMessage]_vars

\* the updater's call has failed with an exception that only the last
\* except clause catches, and handle_data_error is about to run
C9_Witness ==
    /\ pc[Updater] = "err_wait"
    /\ cont[Updater] = "loop"
    /\ msg[Updater] = Message("system error: ", "unexpected")

(***************************************************************************)
(* C10.  The updater thread never ends: it is always choosing its          *)
(* interval, sleeping or in a refresh; it sleeps 10 s when the market is   *)
(* open and 60 s otherwise, and 5 s after an exception that escaped the    *)
(* refresh, after which it is back in its loop; and under fair scheduling  *)
(* it calls get_ftse_data_from_histock again and again for as long as the  *)
(* clock advances.                                                         *)
(***************************************************************************)
UpdaterStages ==
    {"loop", "sleep", "errsleep", "fetch",
     "upd_wait", "upd_cs", "err_wait", "err_cs", "def_wait", "def_cs"}

\* the model's clock has stopped short of the time the updater sleeps until
ClockEnded ==
    /\ ticks = MaxTicks
    /\ pc[Updater] \in {"sleep", "errsleep"}
    /\ now < wake

UpdaterLoopStep ==
    /\ (pc[Updater] = "loop" /\ pc'[Updater] # "loop")
       => /\ pc'[Updater] = "sleep"
          /\ wake' = now + (IF IsMarketHoursAt(now) THEN 10 ELSE 60)
    /\ (pc[Updater] = "sleep" /\ pc'[Updater] # "sleep")
       => pc'[Updater] = "fetch" /\ now >= wake
    /\ (pc[Updater] = "fetch" /\ pc'[Updater] \notin {"fetch", "upd_wait", "err_wait"})
       => pc'[Updater] = "errsleep" /\ wake' = now + 5
    /\ (pc[Updater] = "errsleep" /\ pc'[Updater] # "errsleep")
       => pc'[Updater] = "loop" /\ now >= wake
    /\ (pc[Updater] \in {"upd_cs", "err_cs", "def_cs"}
        /\ pc'[Updater] \notin {"upd_cs", "err_cs", "def_cs", "def_wait"})
       => pc'[Updater] = "loop"

C10_UpdaterNeverTerminates ==
    /\ [](pc[Updater] \in UpdaterStages)
    /\ [][UpdaterLoopStep]_vars
    /\ []<>(pc[Updater] = "fetch" \/ ClockEnded)
    /\ (pc[Updater] \in {"sleep", "errsleep"}) ~> (pc[Updater] = "fetch" \/ ClockEnded)

\* the updater calls get_ftse_data_from_histock after a sleep that began
\* with the market closed
C10_Witness ==
    /\ pc[Updater] = "fetch"
    /\ cont[Updater] = "loop"
    /\ ~IsMarketHoursAt(now)
    /\ now = StartTime + 2 * 280
    /\ ftse_data # None


(***************************************************************************)
(* C11.  A fetch whose price does not parse, its change and percent being  *)
(* well-formed, hands the price's own message to handle_data_error and     *)
(* stores nothing; and the price, change and changePercent of the current  *)
(* data are always those of one successful fetch (of the rising page or of *)
(* the falling page) or those of the default.                              *)
(***************************************************************************)
FieldsOf(d) == <<d["price"], d["change"], d["changePercent"]>>

WholeFetches ==
    {<<1650250, 12800, 780>>, <<1629250, -8370, -510>>, <<1637500, -68300, -4000>>}

PriceFailureStep(t) ==
    /\ pc[t] = "fetch"
    /\ pc'[t] = "err_wait"
    /\ msg'[t] = Message("", "cannot parse price")

C11_PriceFailureStoresNothing ==
    /\ [](ftse_data # None => FieldsOf(Current) \in WholeFetches)
    /\ [][\A t \in Threads :
            /\ PriceFailureStep(t)
               => /\ UNCHANGED <<heap, ftse_data, last_update_time>>
                  /\ res'[t] = NoResult
            /\ (pc[t] = "fetch" /\ pc'[t] = "upd_wait")
               => <<res'[t].price, res'[t].change, res'[t].change_percent>>
                     \in WholeFetches]_vars

\* the failure of the price was handled with live data in the store, which
\* kept its three fields and carries the price's message
C11_Witness ==
    /\ ftse_data # None
    /\ Current["source"] = SourceLive
    /\ FieldsOf(Current) = <<1650250, 12800, 780>>
    /\ "error" \in DOMAIN Current
    /\ Current["error"] = Message("", "cannot parse price")


(***************************************************************************)
(* C12.  For the change and for the percent change, whatever the text      *)
(* (minus sign or none; down glyph before the number, after it or absent)  *)
(* the glyphs are stripped and the text parses; a value written with a     *)
(* minus sign is returned negative, never negated again; a value without   *)
(* one is returned negated if a down indicator is there, and unchanged     *)
(* otherwise.                                                              *)
(***************************************************************************)
\* the value the rule gives for an element
SignedValueByRule(el) ==
    LET bare == Remove(Remove(Remove(Remove(Strip(el.text), DownGlyph), UpGlyph), ","), "%")
        f == ParseFloat(bare)
    IN  IF Contains(el.text, "-") THEN f.val
        ELSE IF Contains(el.text, DownGlyph) \/ FirstClassIsGreen(el) THEN -f.val
        ELSE f.val

C12_SignCorrection ==
    [][\A t \in Threads :
          (pc[t] = "fetch" /\ pc'[t] # "fetch")
          => \E page \in SignPages :
                /\ pc'[t] = "upd_wait"
                /\ res'[t].change = SignedValueByRule(page.change)
                /\ res'[t].change_percent = SignedValueByRule(page.percent)]_vars


(***************************************************************************)
(* C13.  The derived values of the current data, and of every dict a       *)
(* caller holds, are those of its own price: tx_price is                   *)
(* calculate_tx_price(price) and tx_change is tx_price - 27556, whether    *)
(* the data was written by a successful refresh, reused after a failure or *)
(* is the default.                                                         *)
(***************************************************************************)
DerivedFromOwnPrice(d) ==
    /\ d["tx_price"] = calculate_tx_price(d["price"])
    /\ d["tx_change"] = d["tx_price"] - 27556

C13_DerivedValuesFollowPrice ==
    /\ ftse_data # None => DerivedFromOwnPrice(Current)
    /\ \A r \in Readers : held[r] # None => DerivedFromOwnPrice(heap[held[r]].d)

\* live data of the falling page, reused after a failure, is current while
\* a caller still holds the default that was current before
C13_Witness ==
    /\ ftse_data # None
    /\ Current["source"] = SourceLive
    /\ "error" \in DOMAIN Current
    /\ Current["price"] = 1629250
    /\ Current["tx_price"] = 20008
    /\ Current["tx_change"] = -7548
    /\ \E r \in Readers :
          /\ held[r] # None
          /\ held[r] # ftse_data
          /\ heap[held[r]].d["source"] = SourceDefault
          /\ heap[held[r]].d["tx_price"] = 20110


(***************************************************************************)
(* C14.  For every value, negative ones included, round_to_quarter gives   *)
(* the nearest quarter: a multiple of 0.25 at most 0.125 away, the         *)
(* fractional part being mapped [0,.125) to .0, [.125,.375) to .25,        *)
(* [.375,.625) to .5, [.625,.875) to .75 and [.875,1) to the next integer. *)
(***************************************************************************)
\* the nearest quarter of v by the thresholds, v in thousandths; \div rounds
\* down, so that 0 <= frac < 1000 for every v
NearestQuarter(v) ==
    LET whole == (v \div 1000) * 1000
        frac  == v - whole
    IN  IF frac < 125 THEN whole
        ELSE IF frac < 375 THEN whole + 250
        ELSE IF frac < 625 THEN whole + 500
        ELSE IF frac < 875 THEN whole + 750
        ELSE whole + 1000

C14_RoundToQuarterIsNearest ==
    [][\A t \in Threads :
          (pc[t] = "fetch" /\ pc'[t] = "upd_wait")
          => LET v == res'[t].change
                 q == res'[t].price
             IN  /\ q % 250 = 0
                 /\ q - v <= 125
                 /\ v - q <= 125
                 /\ q = NearestQuarter(v)]_vars


(***************************************************************************)
(* C15.  is_market_hours is false at every instant of Saturday and Sunday  *)
(* and, on the other days, true exactly from 08:45:00 to 13:45:00 Taipei   *)
(* time, both ends included: every write of the store records that value   *)
(* for the instant of the write, and the updater sleeps 10 s exactly when   *)
(* it is true.                                                             *)
(***************************************************************************)
\* the rule, for an instant counted in seconds from Monday 00:00:00
OpenByRule(t) ==
    LET day == (t \div 86400) % 7
        tod == t % 86400
    IN  /\ day \notin {5, 6}
        /\ 8 * 3600 + 45 * 60 <= tod
        /\ tod <= 13 * 3600 + 45 * 60

\* a step that rebinds the global to a new dict (lines 207 and 242)
StoreWritten == \E t \in Threads : pc[t] \in {"upd_cs", "def_cs"} /\ pc'[t] # pc[t]

C15_MarketHoursWindow ==
    [][/\ StoreWritten => (Current'["is_market_hours"] <=> OpenByRule(now))
       /\ (pc[Updater] = "loop" /\ pc'[Updater] = "sleep")
          => (wake' - now = 10 <=> OpenByRule(now))]_vars

\* data written on Tuesday at 13:45:00 sharp is marked as market hours
C15_Witness ==
    /\ ftse_data # None
    /\ now = 86400 + 13 * 3600 + 45 * 60
    /\ Current["timestamp"] = now
    /\ Current["is_market_hours"] = TRUE


(***************************************************************************)
(* C16.  ftse_lock is never held while a response is fetched and parsed:   *)
(* its holder is always inside one of the "with ftse_lock:" blocks, a      *)
(* thread whose fetch is outstanding does not hold it, and the holder's    *)
(* next step ends the block and frees the lock.  So a read of existing     *)
(* data and the write of another refresh go on during a fetch.             *)
(***************************************************************************)
LockedStages == {"upd_cs", "err_cs", "def_cs", "get_cs", "get2_cs", "reget_cs", "reget2_cs"}

C16_NoFetchUnderLock ==
    /\ [](\A t \in Threads :
            /\ lock = t => pc[t] \in LockedStages
            /\ pc[t] \in LockedStages => lock = t
            /\ pc[t] = "fetch" => lock # t)
    /\ [][\A t \in Threads :
            (lock = t /\ pc'[t] # pc[t]) => lock' = NoThread]_vars

\* a caller that found the store empty is fetching in its own thread while
\* the first call of the program holds the lock for its write
C16_Witness ==
    /\ \E r \in Readers : pc[r] = "fetch" /\ cont[r] = "get"
    /\ pc[Updater] = "upd_cs"
    /\ lock = Updater
    /\ ftse_data = None


(***************************************************************************)
(* C17.  The validity test of handle_data_error and its write are one      *)
(* step under the lock: the default data replaces the current data only    *)
(* when, at the moment of the write, there is no data or the data is at    *)
(* least 300 s old; data written less than 300 s ago is never overwritten  *)
(* by the default.                                                         *)
(***************************************************************************)
C17_DefaultOnlyOverExpiredData ==
    [][\A t \in Threads :
          WritesDefault(t)
          => \/ ftse_data = None
             \/ /\ now - Current["timestamp"] >= 300
                /\ now - last_update_time >= 300]_vars


(***************************************************************************)
(* C18.  Whenever there is data, last_update_time is the timestamp of the  *)
(* current data: both writes of the store set the two to the same instant  *)
(* and the reuse after a failure changes neither.                          *)
(***************************************************************************)
C18_ClockEqualsTimestamp ==
    /\ ftse_data = None => last_update_time = 0
    /\ ftse_data # None => last_update_time = Current["timestamp"]

\* the default, written 280 s ago, has been reused after a later failure:
\* its timestamp and last_update_time are still the instant of its write
C18_Witness ==
    /\ ftse_data # None
    /\ Current["source"] = SourceDefault
    /\ Current["error"] = Message("", "cannot parse price")
    /\ Current["timestamp"] = now - 280
    /\ last_update_time = now - 280


(***************************************************************************)
(* C19.  Recovery.  Once every fetch succeeds, under fair scheduling of    *)
(* the updater and of the refreshes in flight: the failures still in       *)
(* flight are handled, and none is in flight from then on; and any refresh *)
(* that is fetching with no failure in flight leads to current data that   *)
(* is live-sourced with no error entry and stays so for ever.  Every write *)
(* of update_ftse_data leaves live data without error, such data is lost   *)
(* only by a step of handle_data_error, and no thread enters               *)
(* handle_data_error once every fetch succeeds.  (The updater fetches      *)
(* again and again while the clock advances, C10.)                         *)
(***************************************************************************)
LiveWithoutError ==
    /\ ftse_data # None
    /\ Current["source"] = SourceLive
    /\ "error" \notin DOMAIN Current

FetchesSucceed == ticks >= TurnTick

NoFailureInFlight == \A t \in Threads : pc[t] \notin ErrorStages

C19_Recovery ==
    /\ FetchesSucceed ~> [] NoFailureInFlight
    /\ (FetchesSucceed /\ NoFailureInFlight /\ \E t \in Threads : pc[t] = "fetch")
          ~> [] LiveWithoutError
    /\ [][/\ (\E t \in Threads : pc[t] = "upd_cs" /\ pc'[t] # pc[t]) => LiveWithoutError'
          /\ (LiveWithoutError /\ ~LiveWithoutError')
             => \E t \in Threads : pc[t] \in {"err_cs", "def_cs"} /\ pc'[t] # pc[t]
          /\ FetchesSucceed
             => \A t \in Threads : pc'[t] = "err_wait" => pc[t] = "err_wait"]_vars

\* a failure from before the turn was handled after it, on data written
\* after it: the handler still has that dict, live with the error, and a
\* later refresh has made the current data live without error
C19_Witness ==
    /\ FetchesSucceed
    /\ NoFailureInFlight
    /\ LiveWithoutError
    /\ \E r \in Readers :
          /\ held[r] # None
          /\ held[r] # ftse_data
          /\ heap[held[r]].d["source"] = SourceLive
          /\ heap[held[r]].d["timestamp"] > StartTime
          /\ "error" \in DOMAIN heap[held[r]].d
          /\ Current["timestamp"] > heap[held[r]].d["timestamp"]

(***************************************************************************)
(* C20.  Persistent outage.  Once every refresh that completes fails,      *)
(* under fair scheduling of the updater: a refresh of the updater made     *)
(* when the current data, live or default, was captured 300 s before or    *)
(* earlier leads to the default as current data (price 1637.5, change      *)
(* -68.3, changePercent -4.0, the default source, an error) with a         *)
(* timestamp less than 300 s old; the default, once current, stays current *)
(* with an error whatever thread writes; and every write of the default    *)
(* stamps it with the time of the write.                                   *)
(***************************************************************************)
DefaultWithError ==
    /\ ftse_data # None
    /\ Current["price"] = 1637500
    /\ Current["change"] = -68300
    /\ Current["changePercent"] = -4000
    /\ Current["source"] = SourceDefault
    /\ "error" \in DOMAIN Current
    /\ Current["error"] # NoMessage

FetchesFail == ticks >= TurnTick

\* every fetch fails and no refresh that succeeded is still to write
OutageBegun == FetchesFail /\ \A t \in Threads : pc[t] \notin {"upd_wait", "upd_cs"}

C20_PersistentOutage ==
    /\ (/\ OutageBegun
        /\ pc[Updater] = "fetch"
        /\ ftse_data # None
        /\ now - Current["timestamp"] >= 300)
       ~> (DefaultWithError /\ now - Current["timestamp"] < 300)
    /\ [][/\ (OutageBegun /\ DefaultWithError) => DefaultWithError'
          /\ \A t \in Threads :
                WritesDefault(t) => DefaultWithError' /\ Current'["timestamp"] = now]_vars

\* the outage began on live data captured at the start: the data was reused
\* with the failure's message, a handler still has that dict, and 300 s
\* after the capture the updater's failure has written the default
C20_Witness ==
    /\ FetchesFail
    /\ DefaultWithError
    /\ Current["timestamp"] = StartTime + 300
    /\ pc[Updater] = "loop"
    /\ \E r \in Readers :
          /\ held[r] # None
          /\ heap[held[r]].d["source"] = SourceLive
          /\ heap[held[r]].d["timestamp"] = StartTime
          /\ "error" \in DOMAIN heap[held[r]].d

====
